---- MODULE Spec2Model ----
(***************************************************************************)
(* A model of the API latency tester (src/latency-test.js): the sequential *)
(* request loop with its per-request abort timers, the metrics, and the    *)
(* read-modify-write of the JSON log file.  Each invocation of the tool is *)
(* one process p; an action is one run of the event loop from one          *)
(* suspension point (an await, a timer) to the next, or one file system    *)
(* call of logResults.                                                     *)
(***************************************************************************)
EXTENDS Integers, Sequences, FiniteSets, TLC

\* ------------------------------------------------------------- bounds
\* The largest REQUEST_COUNT an invocation is started with.
MaxCount == 2
\* The number of invocations of the tool.
MaxProcs == 2

\* The longest outcome list calculateMetrics is called with directly.
MaxLen == 3
\* The largest latency categorizeLatency is called with directly.
MaxLatency == 1100
\* The longest outcome list of successes followed by failures.
MaxTotal == 40
MaxTally == 201

Procs == 1..MaxProcs

\* ------------------------------------------------ program constants
DEFAULT_REQUEST_COUNT == 5
DEFAULT_TIMEOUT == 30000
DEFAULT_DELAY == 300
DEFAULT_LOG_FILE_PATH == "./latency-test-results.json"

\* JavaScript's undefined and null, and the value of a variable not yet set.
Undefined == "<undefined>"
Null == "<null>"
NoMetrics == [totalRequests |-> -1]
NoEntry == [sessionId |-> Undefined]

\* ------------------------------------------------------------ parseInt
DigitChars == "0123456789"
IsDigit(c) == \E d \in 1..10 : SubSeq(DigitChars, d, d) = c
DigitVal(c) == (CHOOSE d \in 1..10 : SubSeq(DigitChars, d, d) = c) - 1
CharAt(s, k) == SubSeq(s, k, k)
IsSpace(c) == c \in {" ", "\t", "\n"}

\* The index of the first character of s at or after k that is not white space.
RECURSIVE SkipSpace(_, _)
SkipSpace(s, k) ==
  IF k <= Len(s) /\ IsSpace(CharAt(s, k)) THEN SkipSpace(s, k + 1) ELSE k

\* The value of the run of digits of s that starts at k, continuing acc.
RECURSIVE DigitRun(_, _, _)
DigitRun(s, k, acc) ==
  IF k <= Len(s) /\ IsDigit(CharAt(s, k))
  THEN DigitRun(s, k + 1, 10 * acc + DigitVal(CharAt(s, k)))
  ELSE acc

NaN == [nan |-> TRUE, val |-> 0]
Num(n) == [nan |-> FALSE, val |-> n]

\* parseInt(raw, 10): leading white space, an optional sign, then the longest
\* run of digits; NaN when there is no digit (and for undefined).
ParseInt(raw) ==
  IF raw = Undefined THEN NaN
  ELSE LET k == SkipSpace(raw, 1)
           neg == k <= Len(raw) /\ CharAt(raw, k) = "-"
           signed == k <= Len(raw) /\ CharAt(raw, k) \in {"-", "+"}
           d == IF signed THEN k + 1 ELSE k
       IN  IF d <= Len(raw) /\ IsDigit(CharAt(raw, d))
           THEN Num(IF neg THEN 0 - DigitRun(raw, d, 0) ELSE DigitRun(raw, d, 0))
           ELSE NaN

IsFinite(n) == ~n.nan

\* A getConfiguredTimeout that checks only that the value is a number.
getConfiguredTimeoutUnchecked(e) ==
  LET parsed == ParseInt(e.REQUEST_TIMEOUT)
  IN  IF ~IsFinite(parsed) THEN DEFAULT_TIMEOUT ELSE parsed.val

\* getConfiguredTimeout() and getConfiguredDelay() on an environment e.
getConfiguredTimeout(e) ==
  LET parsed == ParseInt(e.REQUEST_TIMEOUT)
  IN  IF ~IsFinite(parsed) \/ parsed.val <= 0 THEN DEFAULT_TIMEOUT ELSE parsed.val

getConfiguredDelay(e) ==
  LET parsed == ParseInt(e.REQUEST_DELAY)
  IN  IF ~IsFinite(parsed) \/ parsed.val < 0 THEN DEFAULT_DELAY ELSE parsed.val

\* ------------------------------------------------------- categorizeLatency
\* Tiers with the boundaries on the other side: 300 is fast, 1000 is slow.
categorizeLatencyShifted(ms) ==
  IF ms <= 300 THEN "Fast (Excellent)"
  ELSE IF ms < 1000 THEN "Medium (Acceptable/Good)"
  ELSE "Slow (Poor/Unacceptable)"

categorizeLatency(ms) ==
  IF ms < 300 THEN "Fast (Excellent)"
  ELSE IF ms <= 1000 THEN "Medium (Acceptable/Good)"
  ELSE "Slow (Poor/Unacceptable)"

\* --------------------------------------------------- validateEnvironment
LowerLetters == "abcdefghijklmnopqrstuvwxyz"
IsLetter(c) == \E d \in 1..26 : SubSeq(LowerLetters, d, d) = c
IsSchemeChar(c) == IsLetter(c) \/ IsDigit(c) \/ c \in {"+", "-", "."}

\* new URL(s) succeeds: s starts with a scheme (a letter, then scheme
\* characters) followed by a colon.
URLParses(s) ==
  \E k \in 2..Len(s) :
    /\ CharAt(s, k) = ":"
    /\ IsLetter(CharAt(s, 1))
    /\ \A j \in 1..(k - 1) : IsSchemeChar(CharAt(s, j))

validateEnvironment(e) ==
  IF e.API_URL = Undefined \/ e.API_URL = ""
  THEN [isValid |-> FALSE,
        errorMessage |-> "API_URL environment variable is required. Please set it in your .env file or environment."]
  ELSE IF ~URLParses(e.API_URL)
  THEN [isValid |-> FALSE, errorMessage |-> "Invalid API_URL format: Invalid URL"]
  ELSE [isValid |-> TRUE, errorMessage |-> Null]


\* ------------------------------------------------- performSingleRequest
\* What the network can answer to one GET: a response (status line, and the
\* time in microseconds on the monotonic clock until it arrived) or a
\* transport error (the rejected fetch's error object and that time).
Responses ==
  { [status |-> 200, statusText |-> "OK", elapsedUs |-> 20300],
    [status |-> 200, statusText |-> "OK", elapsedUs |-> 299500],
    [status |-> 204, statusText |-> "No Content", elapsedUs |-> 1000600],
    [status |-> 304, statusText |-> "Not Modified", elapsedUs |-> 299500],
    [status |-> 404, statusText |-> "Not Found", elapsedUs |-> 20300] }

TransportErrors ==
  { [name |-> "TypeError", code |-> Undefined, message |-> "fetch failed",
     elapsedUs |-> 20300],
    [name |-> "FetchError", code |-> "ENOTFOUND",
     message |-> "getaddrinfo ENOTFOUND api.test", elapsedUs |-> 20300],
    [name |-> "FetchError", code |-> "ECONNREFUSED",
     message |-> "connect ECONNREFUSED 127.0.0.1:80", elapsedUs |-> 20300] }

\* The rejection of a fetch whose signal was aborted, timeout ms after the
\* request started (the timer fires a little after its deadline).
AbortError(timeout) ==
  [name |-> "AbortError", code |-> Undefined,
   message |-> "This operation was aborted", elapsedUs |-> timeout * 1000 + 400]

\* Math.round(endTime - startTime), the clock readings in microseconds.
RoundMs(elapsedUs) == (elapsedUs + 500) \div 1000

\* response.ok
ResponseOk(response) == response.status >= 200 /\ response.status <= 299

\* A runner that categorizes every response, failed ones too.
ResponseResultCategorizeAll(requestNumber, timestamp, response) ==
  LET latency == RoundMs(response.elapsedUs)
  IN  [requestNumber |-> requestNumber,
       latency |-> latency,
       timestamp |-> timestamp,
       statusCode |-> response.status,
       success |-> ResponseOk(response),
       errorMessage |-> IF ResponseOk(response) THEN Null
                        ELSE "HTTP " \o ToString(response.status) \o ": "
                               \o response.statusText,
       category |-> categorizeLatency(latency)]

\* A runner that reports every failed request with statusCode 0.
ResponseResultStatusZero(requestNumber, timestamp, response) ==
  LET latency == RoundMs(response.elapsedUs)
  IN  [requestNumber |-> requestNumber,
       latency |-> latency,
       timestamp |-> timestamp,
       statusCode |-> IF ResponseOk(response) THEN response.status ELSE 0,
       success |-> ResponseOk(response),
       errorMessage |-> IF ResponseOk(response) THEN Null
                        ELSE "HTTP " \o ToString(response.status) \o ": "
                               \o response.statusText,
       category |-> IF ResponseOk(response) THEN categorizeLatency(latency)
                    ELSE Null]

\* The result of lines 111-126: a response arrived.
ResponseResult(requestNumber, timestamp, response) ==
  LET latency == RoundMs(response.elapsedUs)
  IN  [requestNumber |-> requestNumber,
       latency |-> latency,
       timestamp |-> timestamp,
       statusCode |-> response.status,
       success |-> ResponseOk(response),
       errorMessage |-> IF ResponseOk(response) THEN Null
                        ELSE "HTTP " \o ToString(response.status) \o ": "
                               \o response.statusText,
       category |-> IF ResponseOk(response) THEN categorizeLatency(latency)
                    ELSE Null]

\* A catch block that looks for a TimeoutError, which an abort never is.
ErrorMessageNoAbortBranch(error, timeout) ==
  IF error.name = "TimeoutError"
  THEN "Request timeout after " \o ToString(timeout) \o "ms"
  ELSE IF error.code = "ENOTFOUND" \/ error.code = "ECONNREFUSED"
  THEN "Network connectivity issue: " \o error.message
  ELSE error.message

\* The errorMessage of lines 132-139.
ErrorMessage(error, timeout) ==
  IF error.name = "AbortError"
  THEN "Request timeout after " \o ToString(timeout) \o "ms"
  ELSE IF error.code = "ENOTFOUND" \/ error.code = "ECONNREFUSED"
  THEN "Network connectivity issue: " \o error.message
  ELSE error.message

\* The result of the catch block, lines 128-152: fetch rejected.
ErrorResult(requestNumber, timestamp, error, timeout) ==
  [requestNumber |-> requestNumber,
   latency |-> RoundMs(error.elapsedUs),
   timestamp |-> timestamp,
   statusCode |-> 0,
   success |-> FALSE,
   errorMessage |-> ErrorMessage(error, timeout),
   category |-> Null]

\* ------------------------------------------------------ calculateMetrics
\* latencies.reduce((sum, lat) => sum + lat, 0), added up by halves.
RECURSIVE SumLatency(_)
SumLatency(rs) ==
  IF rs = <<>> THEN 0
  ELSE IF Len(rs) = 1 THEN rs[1].latency
  ELSE SumLatency(SubSeq(rs, 1, Len(rs) \div 2))
         + SumLatency(SubSeq(rs, Len(rs) \div 2 + 1, Len(rs)))

\* JavaScript numbers are IEEE 754 doubles.  A non-negative double is held
\* as [bits, k]: the binary digits of a natural number, most significant
\* first, and the number k of them that follow the binary point.
Zeros(n) == [j \in 1..n |-> 0]

\* The w binary digits of the natural number n < 2^w.
PadBits(n, w) == [j \in 1..w |-> (n \div 2^(w - j)) % 2]

\* bits without its leading zeros.
StripZeros(bits) ==
  IF \A j \in 1..Len(bits) : bits[j] = 0 THEN <<>>
  ELSE SubSeq(bits, CHOOSE j \in 1..Len(bits) :
                      bits[j] = 1 /\ \A h \in 1..(j - 1) : bits[h] = 0,
              Len(bits))

\* The binary digits of the natural number n < 2^30, none for 0.
NatBits(n) == StripZeros(PadBits(n, 30))

\* The natural number with the binary digits bits.
RECURSIVE BitsNat(_)
BitsNat(bits) ==
  IF bits = <<>> THEN 0
  ELSE IF Len(bits) = 1 THEN bits[1]
  ELSE LET half == Len(bits) \div 2
       IN  BitsNat(SubSeq(bits, 1, half)) * 2^(Len(bits) - half)
             + BitsNat(SubSeq(bits, half + 1, Len(bits)))

\* bits plus one.
Increment(bits) ==
  IF \A j \in 1..Len(bits) : bits[j] = 1 THEN <<1>> \o Zeros(Len(bits))
  ELSE LET z == CHOOSE j \in 1..Len(bits) :
                  bits[j] = 0 /\ \A h \in (j + 1)..Len(bits) : bits[h] = 1
       IN  [j \in 1..Len(bits) |-> IF j < z THEN bits[j] ELSE IF j = z THEN 1 ELSE 0]

\* The digits of the quotient after acc, by long division of rem / d eight
\* digits at a time, until there are at least 55 significant ones, and the
\* remainder then (d below 2^22).
RECURSIVE DivBits(_, _, _)
DivBits(rem, d, acc) ==
  IF Len(StripZeros(acc)) >= 55 THEN [bits |-> acc, rem |-> rem]
  ELSE DivBits((rem * 256) % d, d, acc \o PadBits((rem * 256) \div d, 8))

\* The digits bits, followed by a rest that is not zero when sticky holds,
\* rounded to 53 significant digits, to the nearest, ties to even; the
\* digits dropped are replaced by zeros.
RoundTo53(bits, sticky) ==
  LET sigBits == StripZeros(bits)
      n == Len(sigBits)
      keep == SubSeq(sigBits, 1, 53)
      guard == sigBits[54]
      rest == sticky \/ \E j \in 55..n : sigBits[j] = 1
      up == guard = 1 /\ (rest \/ keep[53] = 1)
  IN  IF n <= 53 THEN bits
      ELSE (IF up THEN Increment(keep) ELSE keep) \o Zeros(n - 53)

\* a / b of the naturals a < 2^30 and 0 < b < 2^22: the quotient rounded
\* to 53 significant digits.
DoubleDiv(a, b) ==
  IF a = 0 THEN [bits |-> <<>>, k |-> 0]
  ELSE LET whole == NatBits(a \div b)
           q == DivBits(a % b, b, whole)
       IN  [bits |-> RoundTo53(q.bits, q.rem # 0), k |-> Len(q.bits) - Len(whole)]

\* bits times the natural c < 2^16, plus carry, ten digits at a time.
RECURSIVE MulCarry(_, _, _)
MulCarry(bits, c, carry) ==
  IF bits = <<>> THEN NatBits(carry)
  ELSE LET n == Len(bits)
           w == IF n < 10 THEN n ELSE 10
           v == BitsNat(SubSeq(bits, n - w + 1, n)) * c + carry
       IN  MulCarry(SubSeq(bits, 1, n - w), c, v \div 2^w) \o PadBits(v % 2^w, w)

\* x * c of the double x and the natural c.
DoubleMul(x, c) == [bits |-> RoundTo53(MulCarry(x.bits, c, 0), FALSE), k |-> x.k]

\* A rounding that drops the fraction of a non-negative double.
MathRoundDown(x) ==
  LET padded == IF Len(x.bits) <= x.k THEN Zeros(x.k + 1 - Len(x.bits)) \o x.bits
                ELSE x.bits
  IN  BitsNat(SubSeq(padded, 1, Len(padded) - x.k))

\* Math.round(x) of a non-negative double: the nearest integer, halves up.
MathRound(x) ==
  LET padded == IF Len(x.bits) <= x.k THEN Zeros(x.k + 1 - Len(x.bits)) \o x.bits
                ELSE x.bits
      n == Len(padded) - x.k
  IN  BitsNat(SubSeq(padded, 1, n)) + (IF x.k > 0 THEN padded[n + 1] ELSE 0)

\* A filter that takes every request that got a response for a success.
IsSuccessResponded(r) == r.statusCode # 0

\* results.filter(r => r.success)
IsSuccess(r) == r.success

\* A filter that takes only the requests without a response for failures.
IsFailureNoResponse(r) == r.statusCode = 0

\* results.filter(r => !r.success)
IsFailure(r) == ~r.success

calculateMetrics(rs) ==
  LET successfulResults == SelectSeq(rs, IsSuccess)
      failedResults == SelectSeq(rs, IsFailure)
      latencies == {successfulResults[k].latency : k \in 1..Len(successfulResults)}
      averageLatency ==
        MathRound(DoubleDiv(SumLatency(successfulResults), Len(successfulResults)))
  IN  IF Len(successfulResults) = 0
      THEN [totalRequests |-> Len(rs),
            successfulRequests |-> 0,
            failedRequests |-> Len(rs),
            averageLatency |-> 0,
            minLatency |-> 0,
            maxLatency |-> 0,
            successRate |-> 0,
            averageCategory |-> "N/A"]
      ELSE [totalRequests |-> Len(rs),
            successfulRequests |-> Len(successfulResults),
            failedRequests |-> Len(failedResults),
            averageLatency |-> averageLatency,
            minLatency |-> CHOOSE m \in latencies : \A l \in latencies : m <= l,
            maxLatency |-> CHOOSE m \in latencies : \A l \in latencies : m >= l,
            successRate |->
              MathRound(DoubleMul(DoubleDiv(Len(successfulResults), Len(rs)), 100)),
            averageCategory |-> categorizeLatency(averageLatency)]

\* ------------------------------------------------------------- the log file
\* A file's text is a sequence of JSON tokens: punctuation, white space, the
\* literal null, and one token per JSON object (every field of a session
\* record is a number, a boolean, a string, null or an array of such records,
\* which JSON.stringify writes and JSON.parse reads back exactly).
Tok(t) == [t |-> t]
ObjTok(v) == [t |-> "object", v |-> v]
IsWhite(tok) == tok.t \in {" ", "\n"}
IsObj(tok) == tok.t = "object"

NoFile == [exists |-> FALSE, text |-> <<>>]
File(text) == [exists |-> TRUE, text |-> text]

\* JSON.stringify(logs, null, 2) of an array of session records.
RECURSIVE StringifyItems(_)
StringifyItems(logs) ==
  IF Len(logs) = 1 THEN <<Tok("\n"), ObjTok(logs[1]), Tok("\n")>>
  ELSE <<Tok("\n"), ObjTok(Head(logs)), Tok(",")>> \o StringifyItems(Tail(logs))

Stringify(logs) ==
  IF logs = <<>> THEN <<Tok("["), Tok("]")>>
  ELSE <<Tok("[")>> \o StringifyItems(logs) \o <<Tok("]")>>

\* fileContent.trim() is the empty string.
TrimIsEmpty(text) == \A k \in 1..Len(text) : IsWhite(text[k])

NotWhite(tok) == ~IsWhite(tok)

\* The elements between the brackets of an array, white space removed:
\* object, then comma and object, repeated.
RECURSIVE ParseItems(_)
ParseItems(toks) ==
  IF toks = <<>> THEN [ok |-> FALSE, items |-> <<>>]
  ELSE IF ~IsObj(Head(toks)) THEN [ok |-> FALSE, items |-> <<>>]
  ELSE IF Len(toks) = 1 THEN [ok |-> TRUE, items |-> <<Head(toks).v>>]
  ELSE IF toks[2].t # "," THEN [ok |-> FALSE, items |-> <<>>]
  ELSE LET rest == ParseItems(SubSeq(toks, 3, Len(toks)))
       IN  [ok |-> rest.ok, items |-> <<Head(toks).v>> \o rest.items]

\* JSON.parse(text): ok is FALSE where it throws a SyntaxError; otherwise the
\* value is an array (its items), an object or null.
JSONParse(text) ==
  LET toks == SelectSeq(text, NotWhite)
      n == Len(toks)
      bad == [ok |-> FALSE, type |-> "none", items |-> <<>>]
  IN  IF n = 0 THEN bad
      ELSE IF n = 1 /\ toks[1].t = "null"
      THEN [ok |-> TRUE, type |-> "null", items |-> <<>>]
      ELSE IF n = 1 /\ IsObj(toks[1])
      THEN [ok |-> TRUE, type |-> "object", items |-> <<>>]
      ELSE IF toks[1].t = "[" /\ n >= 2 /\ toks[n].t = "]"
      THEN IF n = 2 THEN [ok |-> TRUE, type |-> "array", items |-> <<>>]
           ELSE LET inner == ParseItems(SubSeq(toks, 2, n - 1))
                IN  IF inner.ok
                    THEN [ok |-> TRUE, type |-> "array", items |-> inner.items]
                    ELSE bad
      ELSE bad

\* A logResults that never loads the file and starts from an empty array.
ExistingLogsIgnored(file) == [threw |-> FALSE, logs |-> <<>>]

\* Lines 294-307 of logResults on the file as read: the array the new entry
\* is pushed onto, or threw when JSON.parse throws.
ExistingLogs(file) ==
  IF ~file.exists \/ TrimIsEmpty(file.text) THEN [threw |-> FALSE, logs |-> <<>>]
  ELSE LET parsed == JSONParse(file.text)
       IN  IF ~parsed.ok THEN [threw |-> TRUE, logs |-> <<>>]
           ELSE IF parsed.type # "array" THEN [threw |-> FALSE, logs |-> <<>>]
           ELSE [threw |-> FALSE, logs |-> parsed.items]

\* Lines 268-291 of logResults: the session record.
LogEntry(sessionId, timestamp, apiUrl, e, rs, m) ==
  [sessionId |-> sessionId,
   timestamp |-> timestamp,
   apiUrl |-> apiUrl,
   configuration |-> [requestCount |-> LET c == ParseInt(e.REQUEST_COUNT)
                                       IN  IF c.nan \/ c.val = 0
                                           THEN DEFAULT_REQUEST_COUNT ELSE c.val,
                      timeout |-> getConfiguredTimeout(e),
                      delayMs |-> getConfiguredDelay(e)],
   evaluationCriteria |-> [fast |-> "<300ms", medium |-> "300-1000ms",
                           slow |-> ">1000ms"],
   results |-> rs,
   summary |-> m]

\* What generateUUID() can return.
SessionIds ==
  {"3f2a9c1e-5b7d-4e8a-9c3b-1d2e3f4a5b6c", "a1b2c3d4-e5f6-4a7b-8c9d-0e1f2a3b4c5d"}

\* ------------------------------------------------------------------ state
VARIABLES
  pc,             \* where each invocation stands
  options,        \* how each invocation was started, and its arguments
  configError,    \* the configuration error the invocation reported
  latencyMs,      \* the argument of a direct call of categorizeLatency
  category,       \* what that call returned
  env,            \* process.env of each invocation
  LOG_FILE_PATH,  \* the module constant of line 16, set when the module loads
  requestCount,   \* main's requestCount
  timeout,        \* performLatencyTest's timeout
  delayMs,        \* performLatencyTest's delayMs
  i,              \* the loop index of performLatencyTest
  timestamp,      \* performSingleRequest's timestamp of the request last issued
  results,        \* performLatencyTest's results
  inflight,       \* the request numbers whose fetch has not settled
  abortTimers,    \* the request numbers whose timeout timer is pending
  aborted,        \* the request numbers whose AbortController has aborted
  issueLog,       \* the request numbers in the order their fetch was issued
  delayLog,       \* the inter-request delays started, in order
  wire,           \* what the network did to each settled request, in order
  now,            \* the wall clock (ms since the invocation started)
  metrics,        \* main's metrics
  logEntry,       \* logResults's logEntry
  fileContent,    \* logResults's fileContent, as readFileSync returned it
  existingLogs,   \* logResults's existingLogs
  saved,          \* logResults reached "Results saved to"
  logError,       \* the error.message logResults's catch reported
  raised,         \* an exception reached the catch of main (line 358)
  exitCode,       \* the status passed to process.exit
  files           \* the file system: path -> file

\* What the steps of a started sequence leave alone.
ambient == <<options, latencyMs, category, env, LOG_FILE_PATH>>
locals == <<requestCount, timeout, delayMs>>
loopVars == <<i, timestamp, results, inflight, abortTimers, aborted, issueLog,
              delayLog, wire, now>>
logVars == <<metrics, logEntry, fileContent, existingLogs, saved, logError>>
vars == <<pc, options, configError, latencyMs, category, env, LOG_FILE_PATH,
          requestCount, timeout, delayMs, i, timestamp,
          results, inflight, abortTimers, aborted, issueLog, delayLog, wire, now,
          metrics, logEntry, fileContent, existingLogs, saved, logError, raised,
          exitCode, files>>

NoExit == -1

\* ------------------------------------------------------------- the loop
\* A loop that stops one request early.
LoopTestExclusive(idx, count) == idx < count

\* for (let i = 1; i <= requestCount; i++)
LoopTest(idx, count) == idx <= count

\* A delay after the last request too.
NeedsDelayInclusive(idx, count) == idx <= count

\* if (i < requestCount) await new Promise(resolve => setTimeout(resolve, delayMs))
NeedsDelay(idx, count) == idx < count

\* A loop that does not await the request and goes straight on to the delay.
NoAwaitSingleRequest == "delay"

\* const result = await performSingleRequest(...): the loop stays suspended
\* on the request it issued until that request's promise settles.
AwaitSingleRequest == "fetch"

\* No catch block: whatever fetch rejects with leaves performSingleRequest.
CatchesNothing(error) == FALSE

\* A catch block that handles the abort and rethrows everything else.
CatchesAbortOnly(error) == error.name = "AbortError"

\* catch (error) of performSingleRequest catches whatever fetch rejects with.
Catches(error) == TRUE

\* One controller shared by all requests: any timer cancels whatever fetch
\* is pending.
AbortTargetsShared(k, pending) == pending

\* A timer whose callback aborts nothing.
AbortTargetsNone(k, pending) == {}

\* setTimeout(() => controller.abort(), timeout): the controller of request k
\* cancels the fetch it was passed to, if that fetch has not settled.
AbortTargets(k, pending) == {k} \cap pending

\* An exit code that reports a failure only when no request succeeded.
ExitCodeOfNoSuccess(m) == IF m.successfulRequests = 0 THEN 1 ELSE 0

\* metrics.failedRequests > 0 ? 1 : 0
ExitCodeOf(m) == IF m.failedRequests > 0 THEN 1 ELSE 0

\* The loop of performLatencyTest from its test with index idx, the results
\* rs and the clock t: issue request idx (performSingleRequest up to its
\* await fetch), or return: to the caller of a direct call, or to main (or
\* the apin action), which computes the metrics and enters logResults up to
\* its first file system call.
LoopIter(p, count, idx, rs, t, pending, timers) ==
  /\ i' = [i EXCEPT ![p] = idx]
  /\ results' = [results EXCEPT ![p] = rs]
  /\ now' = [now EXCEPT ![p] = t]
  /\ IF LoopTest(idx, count)
     THEN /\ pc' = [pc EXCEPT ![p] = AwaitSingleRequest]
          /\ inflight' = [inflight EXCEPT ![p] = pending \cup {idx}]
          /\ abortTimers' = [abortTimers EXCEPT ![p] = timers \cup {idx}]
          /\ timestamp' = [timestamp EXCEPT ![p] = t]
          /\ issueLog' = [issueLog EXCEPT ![p] = Append(@, idx)]
          /\ UNCHANGED <<metrics, logEntry>>
     ELSE /\ inflight' = [inflight EXCEPT ![p] = pending]
          /\ abortTimers' = [abortTimers EXCEPT ![p] = timers]
          /\ IF options[p].entry = "performLatencyTest"
             THEN /\ pc' = [pc EXCEPT ![p] = "returned"]
                  /\ UNCHANGED <<metrics, logEntry>>
             ELSE /\ pc' = [pc EXCEPT ![p] = "logRead"]
                  /\ metrics' = [metrics EXCEPT ![p] = calculateMetrics(rs)]
                  /\ \E sessionId \in SessionIds :
                       logEntry' = [logEntry EXCEPT ![p] =
                         LogEntry(sessionId, t, env[p].API_URL, env[p], rs,
                                  calculateMetrics(rs))]
          /\ UNCHANGED <<timestamp, issueLog>>

\* main() up to the first await: validation, then performLatencyTest up to
\* the fetch of request 1.
Main(p) ==
  /\ pc[p] = "start"
  /\ IF ~validateEnvironment(env[p]).isValid
     THEN /\ pc' = [pc EXCEPT ![p] = "exit"]
          /\ exitCode' = [exitCode EXCEPT ![p] = 1]
          /\ configError' = [configError EXCEPT ![p] =
                               validateEnvironment(env[p]).errorMessage]
          /\ UNCHANGED <<locals, loopVars, metrics, logEntry>>
     ELSE LET envRequestCount == ParseInt(env[p].REQUEST_COUNT)
              count == IF IsFinite(envRequestCount) /\ envRequestCount.val > 0
                       THEN envRequestCount.val ELSE DEFAULT_REQUEST_COUNT
          IN  /\ requestCount' = [requestCount EXCEPT ![p] = count]
              /\ timeout' = [timeout EXCEPT ![p] = getConfiguredTimeout(env[p])]
              /\ delayMs' = [delayMs EXCEPT ![p] = getConfiguredDelay(env[p])]
              /\ LoopIter(p, count, 1, <<>>, now[p], {}, {})
              /\ UNCHANGED <<aborted, delayLog, wire, exitCode, configError>>
  /\ UNCHANGED <<ambient, fileContent, existingLogs, saved, logError, raised, files>>

\* The value of an option of the apin command: what the command line gave, or
\* the default that commander was given for it.
OptionValue(given, default) == IF given = Undefined THEN default ELSE given

\* The default of --log-path: apin-results.json in the home directory.
DEFAULT_LOG_PATH == "~/apin-results.json"

\* The checks of the options without the check of the delay.
CliInputErrorDelayUnchecked(o) ==
  LET count == ParseInt(OptionValue(o.count, ToString(DEFAULT_REQUEST_COUNT)))
      tmo == ParseInt(OptionValue(o.timeout, ToString(DEFAULT_TIMEOUT)))
  IN  IF ~IsFinite(count) \/ count.val <= 0
      THEN "Error: Count must be a positive number"
      ELSE IF ~IsFinite(tmo) \/ tmo.val <= 0
      THEN "Error: Timeout must be a positive number"
      ELSE IF ~URLParses(o.url)
      THEN "Error: Invalid URL format - Invalid URL"
      ELSE Null

\* The first check of the apin action that fails on the options o, with the
\* message it prints before process.exit(1); Null when they all pass.
CliInputError(o) ==
  LET count == ParseInt(OptionValue(o.count, ToString(DEFAULT_REQUEST_COUNT)))
      tmo == ParseInt(OptionValue(o.timeout, ToString(DEFAULT_TIMEOUT)))
      delay == ParseInt(OptionValue(o.delay, ToString(DEFAULT_DELAY)))
  IN  IF ~IsFinite(count) \/ count.val <= 0
      THEN "Error: Count must be a positive number"
      ELSE IF ~IsFinite(tmo) \/ tmo.val <= 0
      THEN "Error: Timeout must be a positive number"
      ELSE IF ~IsFinite(delay) \/ delay.val < 0
      THEN "Error: Delay must be a non-negative number"
      ELSE IF ~URLParses(o.url)
      THEN "Error: Invalid URL format - Invalid URL"
      ELSE Null

\* process.env after lines 60-64 of the apin action.
CliEnv(e, o) ==
  [e EXCEPT
     !.API_URL = o.url,
     !.REQUEST_COUNT =
        ToString(ParseInt(OptionValue(o.count, ToString(DEFAULT_REQUEST_COUNT))).val),
     !.REQUEST_TIMEOUT =
        ToString(ParseInt(OptionValue(o.timeout, ToString(DEFAULT_TIMEOUT))).val),
     !.REQUEST_DELAY =
        ToString(ParseInt(OptionValue(o.delay, ToString(DEFAULT_DELAY))).val),
     !.LOG_FILE_PATH = OptionValue(o.logPath, DEFAULT_LOG_PATH)]

\* The action of the apin command up to the first await: the checks of the
\* options, the environment variables, validateEnvironment, then
\* performLatencyTest up to the fetch of request 1.
Cli(p) ==
  /\ pc[p] = "cli"
  /\ LET o == options[p]
         set == CliEnv(env[p], o)
         count == ParseInt(set.REQUEST_COUNT).val
     IN  IF CliInputError(o) # Null
         THEN /\ pc' = [pc EXCEPT ![p] = "exit"]
              /\ exitCode' = [exitCode EXCEPT ![p] = 1]
              /\ configError' = [configError EXCEPT ![p] = CliInputError(o)]
              /\ UNCHANGED <<env, locals, loopVars, metrics, logEntry>>
         ELSE /\ env' = [env EXCEPT ![p] = set]
              /\ IF ~validateEnvironment(set).isValid
                 THEN /\ pc' = [pc EXCEPT ![p] = "exit"]
                      /\ exitCode' = [exitCode EXCEPT ![p] = 1]
                      /\ configError' = [configError EXCEPT ![p] =
                                           validateEnvironment(set).errorMessage]
                      /\ UNCHANGED <<locals, loopVars, metrics, logEntry>>
                 ELSE /\ requestCount' = [requestCount EXCEPT ![p] = count]
                      /\ timeout' = [timeout EXCEPT ![p] = getConfiguredTimeout(set)]
                      /\ delayMs' = [delayMs EXCEPT ![p] = getConfiguredDelay(set)]
                      /\ LoopIter(p, count, 1, <<>>, now[p], {}, {})
                      /\ UNCHANGED <<aborted, delayLog, wire, exitCode, configError>>
  /\ UNCHANGED <<options, latencyMs, category, LOG_FILE_PATH, fileContent,
                 existingLogs, saved, logError, raised, files>>

\* A direct call performLatencyTest(url, n) of the exported function, up to
\* the fetch of request 1, or to its return when the loop is not entered.
CallPerformLatencyTest(p) ==
  /\ pc[p] = "call"
  /\ requestCount' = [requestCount EXCEPT ![p] = options[p].n]
  /\ timeout' = [timeout EXCEPT ![p] = getConfiguredTimeout(env[p])]
  /\ delayMs' = [delayMs EXCEPT ![p] = getConfiguredDelay(env[p])]
  /\ LoopIter(p, options[p].n, 1, <<>>, now[p], {}, {})
  /\ UNCHANGED <<ambient, configError, aborted, delayLog, wire, fileContent,
                 existingLogs, saved, logError, raised, exitCode, files>>

\* A direct call calculateMetrics(results) of the exported function.
CallCalculateMetrics(p) ==
  /\ pc[p] = "aggregate"
  /\ metrics' = [metrics EXCEPT ![p] = calculateMetrics(results[p])]
  /\ pc' = [pc EXCEPT ![p] = "returned"]
  /\ UNCHANGED <<ambient, configError, locals, loopVars, logEntry, fileContent,
                 existingLogs, saved, logError, raised, exitCode, files>>

\* A direct call categorizeLatency(latencyMs) of the exported function.
CallCategorizeLatency(p) ==
  /\ pc[p] = "categorize"
  /\ category' = [category EXCEPT ![p] = categorizeLatency(latencyMs[p])]
  /\ pc' = [pc EXCEPT ![p] = "returned"]
  /\ UNCHANGED <<options, latencyMs, env, LOG_FILE_PATH, configError, locals,
                 loopVars, logVars, raised, exitCode, files>>

\* Request k settled with result res (w is what the network did): the
\* result is pushed and the loop goes on, to the delay or to its next test.
Settle(p, k, res, w, timers, abrt) ==
  LET rs == Append(results[p], res)
      t == now[p] + res.latency
  IN  /\ wire' = [wire EXCEPT ![p] = Append(@, w)]
      /\ aborted' = [aborted EXCEPT ![p] = abrt]
      /\ IF NeedsDelay(i[p], requestCount[p])
         THEN /\ pc' = [pc EXCEPT ![p] = "delay"]
              /\ delayLog' = [delayLog EXCEPT ![p] =
                                Append(@, [after |-> i[p], ms |-> delayMs[p]])]
              /\ results' = [results EXCEPT ![p] = rs]
              /\ now' = [now EXCEPT ![p] = t]
              /\ inflight' = [inflight EXCEPT ![p] = @ \ {k}]
              /\ abortTimers' = [abortTimers EXCEPT ![p] = timers]
              /\ UNCHANGED <<i, timestamp, issueLog, metrics, logEntry>>
         ELSE /\ LoopIter(p, requestCount[p], i[p] + 1, rs, t,
                          inflight[p] \ {k}, timers)
              /\ UNCHANGED delayLog
      /\ UNCHANGED <<ambient, configError, locals, fileContent, existingLogs, saved,
                     logError, raised, exitCode, files>>

\* The fetch of request k rejected with error: the catch block builds the
\* result; an error it did not catch would leave performSingleRequest and
\* performLatencyTest and end in main's catch, process.exit(1).
Reject(p, k, error, w, timers, abrt) ==
  IF Catches(error)
  THEN Settle(p, k, ErrorResult(k, timestamp[p], error, timeout[p]), w, timers, abrt)
  ELSE /\ raised' = [raised EXCEPT ![p] = TRUE]
       /\ pc' = [pc EXCEPT ![p] = "exit"]
       /\ exitCode' = [exitCode EXCEPT ![p] = 1]
       /\ UNCHANGED <<ambient, configError, locals, loopVars, logVars, files>>

Running(p) == pc[p] \in {"fetch", "delay"}

\* A response to request k arrives before the deadline: clearTimeout, result.
Respond(p, k, response) ==
  /\ Running(p)
  /\ k \in inflight[p]
  /\ response.elapsedUs < timeout[p] * 1000
  /\ Settle(p, k, ResponseResult(k, timestamp[p], response),
            [kind |-> "response", status |-> response.status],
            abortTimers[p] \ {k}, aborted[p])

\* The fetch of request k fails in the transport before the deadline; the
\* catch block does not clear the timer.
FetchFail(p, k, error) ==
  /\ Running(p)
  /\ k \in inflight[p]
  /\ error.elapsedUs < timeout[p] * 1000
  /\ Reject(p, k, error, [kind |-> "error", status |-> 0],
            abortTimers[p], aborted[p])

\* The timeout timer of request k fires: controller.abort().
TimerFire(p, k) ==
  /\ Running(p)
  /\ k \in abortTimers[p]
  /\ IF AbortTargets(k, inflight[p]) = {}
     THEN /\ abortTimers' = [abortTimers EXCEPT ![p] = @ \ {k}]
          /\ aborted' = [aborted EXCEPT ![p] = @ \cup {k}]
          /\ UNCHANGED <<pc, ambient, configError, locals, i, timestamp, results,
                         inflight, issueLog, delayLog, wire, now, logVars,
                         raised, exitCode, files>>
     ELSE \E j \in AbortTargets(k, inflight[p]) :
            Reject(p, j, AbortError(timeout[p]), [kind |-> "timeout", status |-> 0],
                   abortTimers[p] \ {k}, aborted[p] \cup {j})

\* The delay timer fires: i++, then the loop test.
DelayElapsed(p) ==
  /\ pc[p] = "delay"
  /\ LoopIter(p, requestCount[p], i[p] + 1, results[p], now[p] + delayMs[p],
              inflight[p], abortTimers[p])
  /\ UNCHANGED <<ambient, configError, locals, aborted, delayLog, wire,
                 fileContent, existingLogs, saved, logError, raised, exitCode,
                 files>>

\* The error.message of what the file system calls and JSON.parse throw.
ReadError == "EACCES: permission denied, open"
OpenError == "EACCES: permission denied, open"
WriteError == "ENOSPC: no space left on device, write"
SyntaxError == "Unexpected end of JSON input"
IOErrors == {ReadError, OpenError, WriteError}

\* A catch block that handles only what JSON.parse throws.
LogCatchesSyntaxErrorOnly(message) == message = SyntaxError

\* catch (error) of logResults, line 314, catches whatever the try block of
\* line 293 throws.
LogCatches(message) == TRUE

\* logResults ends in invocation p, after its try block threw an error with
\* the message thrown (Null: nothing was thrown), and main goes on to its
\* process.exit; an error that logResults did not catch would end in main's
\* catch, process.exit(1).
LogResultsEnd(p, thrown) ==
  /\ pc' = [pc EXCEPT ![p] = "exit"]
  /\ IF thrown = Null \/ LogCatches(thrown)
     THEN /\ logError' = [logError EXCEPT ![p] = thrown]
          /\ exitCode' = [exitCode EXCEPT ![p] = ExitCodeOf(metrics[p])]
          /\ UNCHANGED raised
     ELSE /\ raised' = [raised EXCEPT ![p] = TRUE]
          /\ exitCode' = [exitCode EXCEPT ![p] = 1]
          /\ UNCHANGED logError

\* logResults, lines 294-307: existsSync, readFileSync, JSON.parse, push.
\* A read that throws, or a parse that throws, goes to the catch of line
\* 314, and main exits.
LogRead(p) ==
  /\ pc[p] = "logRead"
  /\ \E readThrows \in BOOLEAN :
       LET file == files[LOG_FILE_PATH[p]]
           existing == ExistingLogs(file)
       IN  /\ readThrows => file.exists
           /\ fileContent' = [fileContent EXCEPT ![p] =
                                IF file.exists /\ ~readThrows THEN file.text ELSE @]
           /\ IF readThrows \/ existing.threw
              THEN /\ LogResultsEnd(p, IF readThrows THEN ReadError ELSE SyntaxError)
                   /\ UNCHANGED existingLogs
              ELSE /\ pc' = [pc EXCEPT ![p] = "logWrite"]
                   /\ existingLogs' = [existingLogs EXCEPT ![p] =
                                          Append(existing.logs, logEntry[p])]
                   /\ UNCHANGED <<exitCode, logError, raised>>
  /\ UNCHANGED <<ambient, configError, locals, loopVars, metrics, logEntry, saved,
                 files>>

\* What writeFileSync can do to the file: write it all, fail to open it, or
\* fail after truncating it and writing a part.
WriteOutcomes == {"written", "not opened", "partial"}

\* A write that opens the file for appending.
WriteFileSyncAppend(file, text) == File(file.text \o text)

\* fs.writeFileSync(path, text) that succeeds: the file is created or
\* truncated, and holds the text.
WriteFileSync(file, text) == File(text)

\* logResults, line 309, then main's process.exit.
LogWrite(p) ==
  /\ pc[p] = "logWrite"
  /\ \E outcome \in WriteOutcomes :
       LET text == Stringify(existingLogs[p])
           file == files[LOG_FILE_PATH[p]]
       IN  /\ files' = [files EXCEPT ![LOG_FILE_PATH[p]] =
                          IF outcome = "written" THEN WriteFileSync(file, text)
                          ELSE IF outcome = "partial"
                          THEN File(SubSeq(text, 1, Len(text) - 1))
                          ELSE @]
           /\ saved' = [saved EXCEPT ![p] = (outcome = "written")]
           /\ LogResultsEnd(p, IF outcome = "written" THEN Null
                               ELSE IF outcome = "partial" THEN WriteError
                               ELSE OpenError)
  /\ UNCHANGED <<ambient, configError, locals, loopVars, metrics, logEntry,
                 fileContent, existingLogs>>

\* The invocations run one after the other: p takes a step only when every
\* invocation before it has exited.
Turn(p) == \A q \in Procs : q < p => pc[q] \in {"exit", "returned", "off"}

\* ------------------------------------------------------- initial states
Paths == {DEFAULT_LOG_FILE_PATH, "./my-results.json", DEFAULT_LOG_PATH}

ApiUrls == {"https://api.test/health", "api.test/health", Undefined}

\* REQUEST_TIMEOUT and REQUEST_DELAY as set in the environment.
TimingEnvs ==
  { [REQUEST_TIMEOUT |-> "50", REQUEST_DELAY |-> "0"],
    [REQUEST_TIMEOUT |-> Undefined, REQUEST_DELAY |-> Undefined] }

Envs(counts) ==
  { [API_URL |-> u, REQUEST_COUNT |-> ToString(c),
     REQUEST_TIMEOUT |-> t.REQUEST_TIMEOUT, REQUEST_DELAY |-> t.REQUEST_DELAY,
     LOG_FILE_PATH |-> Undefined] : u \in ApiUrls, c \in counts, t \in TimingEnvs }

\* A session record an earlier run left in the log file.
OldEntry ==
  LET e == [API_URL |-> "https://api.test/health", REQUEST_COUNT |-> "1",
            REQUEST_TIMEOUT |-> Undefined, REQUEST_DELAY |-> Undefined,
            LOG_FILE_PATH |-> Undefined]
      rs == <<ResponseResult(1, 0, [status |-> 200, statusText |-> "OK",
                                    elapsedUs |-> 20300])>>
  IN  LogEntry("0d9c8b7a-6f5e-4d3c-8b2a-1f0e9d8c7b6a", 20, e.API_URL, e, rs,
               calculateMetrics(rs))

\* The log file before the first invocation: missing, empty, blank, an
\* array of earlier records, an empty array, an object, null, or a
\* truncated array.
InitialStores ==
  { NoFile,
    File(<<>>),
    File(<<Tok("\n")>>),
    File(Stringify(<<OldEntry>>)),
    File(Stringify(<<>>)),
    File(<<ObjTok(OldEntry), Tok("\n")>>),
    File(<<Tok("null")>>),
    File(<<Tok("["), Tok("\n"), ObjTok(OldEntry), Tok("\n")>>) }

\* How an invocation is started: by main() of latency-test.js, by the action
\* of the apin command with its argument and options (as given on the
\* command line; Undefined for an option left out), by a direct call of an
\* exported function (n is the requestCount passed to performLatencyTest),
\* or not at all.
NotStarted ==
  [entry |-> "none", url |-> Undefined, count |-> Undefined,
   timeout |-> Undefined, delay |-> Undefined, logPath |-> Undefined, n |-> 0]

ByMain == [NotStarted EXCEPT !.entry = "main"]

\* Where an invocation starts.
EntryPc(o) ==
  CASE o.entry = "main" -> "start"
    [] o.entry = "apin" -> "cli"
    [] o.entry = "performLatencyTest" -> "call"
    [] o.entry = "calculateMetrics" -> "aggregate"
    [] o.entry = "categorizeLatency" -> "categorize"
    [] OTHER -> "off"

\* The variables of an invocation before it has taken a step.
Fresh ==
  /\ configError = [p \in Procs |-> Null]
  /\ category = [p \in Procs |-> Null]
  /\ requestCount = [p \in Procs |-> 0]
  /\ timeout = [p \in Procs |-> 0]
  /\ delayMs = [p \in Procs |-> 0]
  /\ i = [p \in Procs |-> 0]
  /\ timestamp = [p \in Procs |-> 0]
  /\ inflight = [p \in Procs |-> {}]
  /\ abortTimers = [p \in Procs |-> {}]
  /\ aborted = [p \in Procs |-> {}]
  /\ issueLog = [p \in Procs |-> <<>>]
  /\ delayLog = [p \in Procs |-> <<>>]
  /\ wire = [p \in Procs |-> <<>>]
  /\ now = [p \in Procs |-> 0]
  /\ metrics = [p \in Procs |-> NoMetrics]
  /\ logEntry = [p \in Procs |-> NoEntry]
  /\ fileContent = [p \in Procs |-> <<>>]
  /\ existingLogs = [p \in Procs |-> <<>>]
  /\ logError = [p \in Procs |-> Null]
  /\ saved = [p \in Procs |-> FALSE]
  /\ raised = [p \in Procs |-> FALSE]
  /\ exitCode = [p \in Procs |-> NoExit]

\* The invocations opts in the environments envs, the module constant
\* LOG_FILE_PATH computed from the environment the module was loaded in,
\* and the log file at the default path one of stores.
InitFrom(opts, envs, stores) ==
  /\ options \in opts
  /\ env \in envs
  /\ LOG_FILE_PATH = [p \in Procs |->
       IF env[p].LOG_FILE_PATH \in {Undefined, ""} THEN DEFAULT_LOG_FILE_PATH
       ELSE env[p].LOG_FILE_PATH]
  /\ pc = [p \in Procs |-> EntryPc(options[p])]
  /\ \E store \in stores :
       files = [path \in Paths |->
                  IF path = DEFAULT_LOG_FILE_PATH THEN store ELSE NoFile]
  /\ results = [p \in Procs |-> <<>>]
  /\ latencyMs = [p \in Procs |-> 0]
  /\ Fresh

\* The invocations of started, each by main().
InitWith(envs, started, stores) ==
  InitFrom({[p \in Procs |-> IF p \in started THEN ByMain ELSE NotStarted]},
           envs, stores)

\* One invocation, with every REQUEST_COUNT up to MaxCount.
Init ==
  InitWith({[p \in Procs |-> e] : e \in Envs(1..MaxCount)}, {1}, InitialStores)

Next ==
  \/ \E p \in Procs : Turn(p) /\ Main(p)
  \/ \E p \in Procs : \E k \in inflight[p], response \in Responses :
       Turn(p) /\ Respond(p, k, response)
  \/ \E p \in Procs : \E k \in inflight[p], error \in TransportErrors :
       Turn(p) /\ FetchFail(p, k, error)
  \/ \E p \in Procs : \E k \in abortTimers[p] : Turn(p) /\ TimerFire(p, k)
  \/ \E p \in Procs : Turn(p) /\ DelayElapsed(p)
  \/ \E p \in Procs : Turn(p) /\ LogRead(p)
  \/ \E p \in Procs : Turn(p) /\ LogWrite(p)

Spec == Init /\ [][Next]_vars

\* The environments of the sessions: the first invocation makes two
\* requests with a timeout of 50 ms; the later ones make one request each
\* with a timeout of 10 ms, which no answer of the network meets.
SessionEnv(p) ==
  [API_URL |-> "https://api.test/health",
   REQUEST_COUNT |-> IF p = 1 THEN "2" ELSE "1",
   REQUEST_TIMEOUT |-> IF p = 1 THEN "50" ELSE "10",
   REQUEST_DELAY |-> "0", LOG_FILE_PATH |-> Undefined]

\* The log file before the first session: missing, empty or an array.
SessionStores == {NoFile, File(<<>>), File(Stringify(<<OldEntry>>))}

\* MaxProcs invocations, one after the other, on the same log file.
InitSessions ==
  InitWith({[p \in Procs |-> SessionEnv(p)]}, Procs, SessionStores)

SessionsSpec == InitSessions /\ [][Next]_vars

\* Two invocations of main() at the same time, on the same log file: the
\* steps of the two processes interleave in any order.
InitRace ==
  InitWith({[p \in Procs |-> SessionEnv(p)]}, {1, 2}, SessionStores)

RaceNext ==
  \/ \E p \in Procs : Main(p)
  \/ \E p \in Procs : \E k \in inflight[p], response \in Responses :
       Respond(p, k, response)
  \/ \E p \in Procs : \E k \in inflight[p], error \in TransportErrors :
       FetchFail(p, k, error)
  \/ \E p \in Procs : \E k \in abortTimers[p] : TimerFire(p, k)
  \/ \E p \in Procs : DelayElapsed(p)
  \/ \E p \in Procs : LogRead(p)
  \/ \E p \in Procs : LogWrite(p)

RaceSpec == InitRace /\ [][RaceNext]_vars

\* Environments of main() whose REQUEST_COUNT is negative, zero or not a
\* number, with a REQUEST_TIMEOUT that is valid or negative.
DefaultedEnvs ==
  { [API_URL |-> "https://api.test/health", REQUEST_COUNT |-> c,
     REQUEST_TIMEOUT |-> t, REQUEST_DELAY |-> "0", LOG_FILE_PATH |-> Undefined] :
      c \in {"-1", "0", "abc"}, t \in {"50", "-5"} }

\* One invocation of main() that runs DEFAULT_REQUEST_COUNT requests, on a
\* network that answers 200 at once, fails to connect, or stays silent.
InitDefaulted ==
  InitWith({[p \in Procs |-> e] : e \in DefaultedEnvs}, {1}, {NoFile})

DefaultedNext ==
  \/ \E p \in Procs : Turn(p) /\ Main(p)
  \/ \E p \in Procs : \E k \in inflight[p] :
       Turn(p) /\ Respond(p, k, [status |-> 200, statusText |-> "OK",
                                 elapsedUs |-> 20300])
  \/ \E p \in Procs : \E k \in inflight[p] :
       Turn(p) /\ FetchFail(p, k, [name |-> "FetchError", code |-> "ECONNREFUSED",
                                   message |-> "connect ECONNREFUSED 127.0.0.1:80",
                                   elapsedUs |-> 20300])
  \/ \E p \in Procs : \E k \in abortTimers[p] : Turn(p) /\ TimerFire(p, k)
  \/ \E p \in Procs : Turn(p) /\ DelayElapsed(p)
  \/ \E p \in Procs : Turn(p) /\ LogRead(p)
  \/ \E p \in Procs : Turn(p) /\ LogWrite(p)

DefaultedSpec == InitDefaulted /\ [][DefaultedNext]_vars

\* The command lines of apin: a URL with and without a scheme, counts that
\* are positive, zero and not a number, timeouts and delays in and out of
\* range or left out, and a log path given or left out.
CliOptions(counts) ==
  { [entry |-> "apin", url |-> u, count |-> c, timeout |-> t, delay |-> d,
     logPath |-> l, n |-> 0] :
      u \in {"https://api.test/health", "api.test/health"},
      c \in {ToString(k) : k \in counts} \cup {"0", "abc"},
      t \in {"50", "0", Undefined},
      d \in {"0", "-1"},
      l \in {"./my-results.json", Undefined} }

\* The environment apin is started in: LOG_FILE_PATH set or not.
CliEnvs ==
  { [API_URL |-> Undefined, REQUEST_COUNT |-> Undefined,
     REQUEST_TIMEOUT |-> Undefined, REQUEST_DELAY |-> Undefined,
     LOG_FILE_PATH |-> l] : l \in {Undefined, "./my-results.json"} }

\* One invocation of the tool, by apin or by main().
InitTool ==
  \/ InitFrom({[p \in Procs |-> IF p = 1 THEN o ELSE NotStarted] :
                 o \in CliOptions(1..MaxCount)},
              {[p \in Procs |-> e] : e \in CliEnvs}, SessionStores)
  \/ InitWith({[p \in Procs |-> e] : e \in Envs(1..MaxCount)}, {1}, SessionStores)

ToolNext ==
  \/ \E p \in Procs : Turn(p) /\ Cli(p)
  \/ Next

ToolSpec == InitTool /\ [][ToolNext]_vars

\* REQUEST_TIMEOUT and REQUEST_DELAY set to values in range, out of range,
\* and not numbers.
ControllerTimingEnvs ==
  { [REQUEST_TIMEOUT |-> "50", REQUEST_DELAY |-> "0"],
    [REQUEST_TIMEOUT |-> "-5", REQUEST_DELAY |-> "-1"],
    [REQUEST_TIMEOUT |-> "0", REQUEST_DELAY |-> "20"],
    [REQUEST_TIMEOUT |-> "abc", REQUEST_DELAY |-> "soon"] }

\* One direct call of performLatencyTest, with a count from -1 to MaxCount.
InitController ==
  InitFrom({[p \in Procs |->
               IF p = 1
               THEN [NotStarted EXCEPT !.entry = "performLatencyTest",
                                       !.url = "https://api.test/health", !.n = n]
               ELSE NotStarted] : n \in (0 - 1)..MaxCount},
           {[p \in Procs |->
               [API_URL |-> Undefined, REQUEST_COUNT |-> Undefined,
                REQUEST_TIMEOUT |-> t.REQUEST_TIMEOUT,
                REQUEST_DELAY |-> t.REQUEST_DELAY,
                LOG_FILE_PATH |-> Undefined]] : t \in ControllerTimingEnvs},
           {NoFile})

ControllerNext ==
  \/ \E p \in Procs : Turn(p) /\ CallPerformLatencyTest(p)
  \/ \E p \in Procs : \E k \in inflight[p], response \in Responses :
       Turn(p) /\ Respond(p, k, response)
  \/ \E p \in Procs : \E k \in inflight[p], error \in TransportErrors :
       Turn(p) /\ FetchFail(p, k, error)
  \/ \E p \in Procs : \E k \in abortTimers[p] : Turn(p) /\ TimerFire(p, k)
  \/ \E p \in Procs : Turn(p) /\ DelayElapsed(p)

ControllerSpec == InitController /\ [][ControllerNext]_vars

\* The event loop runs a timer's callback once the timer is due and
\* nothing else runs: the timeout timer of every request and the delay timer
\* fire, and the call itself runs to its first await.  Nothing makes the
\* server answer.
TimersFire ==
  /\ \A p \in Procs : WF_vars(Turn(p) /\ CallPerformLatencyTest(p))
  /\ \A p \in Procs : \A k \in 1..MaxCount : WF_vars(Turn(p) /\ TimerFire(p, k))
  /\ \A p \in Procs : WF_vars(Turn(p) /\ DelayElapsed(p))

FairControllerSpec == ControllerSpec /\ TimersFire

\* What the requests of the outcome lists got: successes after 100, 200,
\* 201 and 1000 ms, a 404 after 30 ms, and a timeout of 5000 ms.
UnitAnswers ==
  { [response |-> [status |-> 200, statusText |-> "OK", elapsedUs |-> us]] :
      us \in {100000, 200000, 200600, 1000400} }
  \cup { [response |-> [status |-> 404, statusText |-> "Not Found",
                        elapsedUs |-> 30200]],
         [error |-> AbortError(5000)] }

\* The result performSingleRequest returns for request k on the answer a.
ResultOf(k, a) ==
  IF "response" \in DOMAIN a THEN ResponseResult(k, 0, a.response)
  ELSE ErrorResult(k, 0, a.error, 5000)

\* The outcome lists of up to len requests.
OutcomeLists(len) ==
  UNION { { [k \in 1..n |-> ResultOf(k, f[k])] : f \in [1..n -> UnitAnswers] } :
          n \in 0..len }

\* The outcome lists of up to total requests of which the first ones
\* succeeded after 100 ms and the others timed out.
TallyLists(total) ==
  UNION { { [k \in 1..n |->
               ResultOf(k, IF k <= ok
                           THEN [response |-> [status |-> 200, statusText |-> "OK",
                                               elapsedUs |-> 100000]]
                           ELSE [error |-> AbortError(5000)])] : ok \in 0..n } :
          n \in 1..total }

\* An environment with nothing set.
EmptyEnv ==
  [API_URL |-> Undefined, REQUEST_COUNT |-> Undefined, REQUEST_TIMEOUT |-> Undefined,
   REQUEST_DELAY |-> Undefined, LOG_FILE_PATH |-> Undefined]

\* One direct call of calculateMetrics with an outcome list of up to MaxLen
\* outcomes or with up to MaxTotal successes and failures, or of
\* categorizeLatency with a latency up to MaxLatency.
InitUnit ==
  /\ \E fn \in {"calculateMetrics", "categorizeLatency"} :
       /\ options = [p \in Procs |->
                       IF p = 1 THEN [NotStarted EXCEPT !.entry = fn] ELSE NotStarted]
       /\ IF fn = "calculateMetrics"
          THEN /\ \E rs \in OutcomeLists(MaxLen) \cup TallyLists(MaxTotal) :
                    results = [p \in Procs |-> IF p = 1 THEN rs ELSE <<>>]
               /\ latencyMs = [p \in Procs |-> 0]
          ELSE /\ results = [p \in Procs |-> <<>>]
               /\ \E ms \in 0..MaxLatency :
                    latencyMs = [p \in Procs |-> IF p = 1 THEN ms ELSE 0]
  /\ env = [p \in Procs |-> EmptyEnv]
  /\ LOG_FILE_PATH = [p \in Procs |-> DEFAULT_LOG_FILE_PATH]
  /\ pc = [p \in Procs |-> EntryPc(options[p])]
  /\ files = [path \in Paths |-> NoFile]
  /\ Fresh

UnitNext ==
  \/ \E p \in Procs : Turn(p) /\ CallCalculateMetrics(p)
  \/ \E p \in Procs : Turn(p) /\ CallCategorizeLatency(p)

UnitSpec == InitUnit /\ [][UnitNext]_vars

\* One direct call of calculateMetrics with the empty list or with up to
\* MaxTally successes and failures.
InitTally ==
  /\ options = [p \in Procs |->
                  IF p = 1 THEN [NotStarted EXCEPT !.entry = "calculateMetrics"]
                  ELSE NotStarted]
  /\ \E rs \in {<<>>} \cup TallyLists(MaxTally) :
       results = [p \in Procs |-> IF p = 1 THEN rs ELSE <<>>]
  /\ latencyMs = [p \in Procs |-> 0]
  /\ env = [p \in Procs |-> EmptyEnv]
  /\ LOG_FILE_PATH = [p \in Procs |-> DEFAULT_LOG_FILE_PATH]
  /\ pc = [p \in Procs |-> EntryPc(options[p])]
  /\ files = [path \in Paths |-> NoFile]
  /\ Fresh

TallyNext == \E p \in Procs : Turn(p) /\ CallCalculateMetrics(p)

TallySpec == InitTally /\ [][TallyNext]_vars

\* ================================================================ claims
\* performLatencyTest has returned to main in invocation p.
Returned(p) == pc[p] \in {"logRead", "logWrite", "exit"} /\ requestCount[p] > 0 /\ ~raised[p]

Min(a, b) == IF a <= b THEN a ELSE b

\* C1: the results of a sequence are numbered 1, 2, ... in order, every
\* request is issued in that order, and when performLatencyTest returns
\* there are exactly requestCount results and requestCount requests were
\* attempted, whatever the outcomes of the requests were.
C1_ExactlyNOutcomesInOrder ==
  \A p \in Procs :
    /\ \A k \in 1..Len(results[p]) : results[p][k].requestNumber = k
    /\ \A k \in 1..Len(issueLog[p]) : issueLog[p][k] = k
    /\ Returned(p) => /\ Len(results[p]) = requestCount[p]
                      /\ Len(issueLog[p]) = requestCount[p]

\* A sequence of at least two requests has returned although its first
\* request failed, and a later request succeeded.
C1_Witness ==
  \E p \in Procs :
    /\ Returned(p)
    /\ Len(results[p]) >= 2
    /\ ~results[p][1].success
    /\ results[p][Len(results[p])].success

\* C2: at most one request is in flight, and the request in flight is the
\* one after the last finalized outcome: request k is issued only when the
\* outcomes of requests 1..k-1 are in the results.
C2_AtMostOneInFlight ==
  \A p \in Procs :
    /\ Cardinality(inflight[p]) <= 1
    /\ \A k \in inflight[p] : Len(results[p]) = k - 1 /\ Len(wire[p]) = k - 1
    /\ Len(issueLog[p]) <= Len(results[p]) + 1

\* The second request is in flight, after the first was finalized.
C2_Witness ==
  \E p \in Procs : inflight[p] = {2} /\ Len(results[p]) = 1

\* C3: the delays started are exactly one of delayMs after each finalized
\* request k < requestCount, in order, and none after request requestCount;
\* request k+1 is not issued before the delay after request k has started,
\* nor while that delay is running.
C3_DelayBetweenRequestsOnly ==
  \A p \in Procs :
    LET d == Min(Len(results[p]), IF requestCount[p] > 0 THEN requestCount[p] - 1 ELSE 0)
    IN  /\ Len(delayLog[p]) = d
        /\ \A k \in 1..d :
             delayLog[p][k] = [after |-> k, ms |-> getConfiguredDelay(env[p])]
        /\ Len(issueLog[p]) <= Len(delayLog[p]) + 1
        /\ pc[p] = "delay" => Len(issueLog[p]) = Len(delayLog[p])
        /\ Returned(p) => Len(delayLog[p]) = requestCount[p] - 1

\* A sequence of at least two requests has returned after its delays.
C3_Witness ==
  \E p \in Procs :
    /\ Returned(p)
    /\ requestCount[p] >= 2
    /\ Len(delayLog[p]) = requestCount[p] - 1

\* sub occurs in the string s.
Contains(s, sub) ==
  \E a \in 1..(Len(s) - Len(sub) + 1) : SubSeq(s, a, a + Len(sub) - 1) = sub

Categories == {"Fast (Excellent)", "Medium (Acceptable/Good)", "Slow (Poor/Unacceptable)"}

\* C4: a request that got no response before its deadline was aborted, and
\* its outcome has success false, statusCode 0, category null and an
\* errorMessage that contains the configured timeout.
C4_TimeoutOutcome ==
  \A p \in Procs : \A k \in 1..Len(wire[p]) :
    wire[p][k].kind = "timeout" =>
      /\ k \in aborted[p]
      /\ k <= Len(results[p])
      /\ results[p][k].requestNumber = k
      /\ results[p][k].success = FALSE
      /\ results[p][k].statusCode = 0
      /\ results[p][k].category = Null
      /\ results[p][k].errorMessage # Null
      /\ Contains(results[p][k].errorMessage, ToString(getConfiguredTimeout(env[p])))

\* A request with REQUEST_TIMEOUT=50 timed out, and its message mentions 50.
C4_Witness ==
  \E p \in Procs : \E k \in 1..Len(wire[p]) :
    /\ wire[p][k].kind = "timeout"
    /\ env[p].REQUEST_TIMEOUT = "50"
    /\ Contains(results[p][k].errorMessage, "50")

\* The step removes the timeout timer of request k of p by firing it (a
\* response clears it instead).
TimerFired(p, k) ==
  /\ k \in abortTimers[p]
  /\ k \notin abortTimers'[p]
  /\ ~(/\ Len(wire'[p]) = Len(wire[p]) + 1
       /\ wire'[p][Len(wire'[p])].kind = "response")

\* C5: when the timer of request k fires, either request k has settled
\* already and nothing of the sequence changes (no result, no request in
\* flight, not the position of the loop), or request k is the one in flight,
\* and then the only change to the results is the outcome of request k, added
\* at the end, and the loop goes on to the delay or returns.
C5_TimerAbortsOnlyItsOwnRequest ==
  [][\A p \in Procs : \A k \in abortTimers[p] :
       TimerFired(p, k) =>
         \/ /\ k \notin inflight[p]
            /\ results'[p] = results[p]
            /\ inflight'[p] = inflight[p]
            /\ pc'[p] = pc[p]
            /\ i'[p] = i[p]
         \/ /\ k \in inflight[p]
            /\ Len(results'[p]) = Len(results[p]) + 1
            /\ SubSeq(results'[p], 1, Len(results[p])) = results[p]
            /\ results'[p][Len(results'[p])].requestNumber = k
            /\ inflight'[p] = inflight[p] \ {k}
            /\ pc'[p] = IF k < requestCount[p] THEN "delay" ELSE "logRead"]_vars

\* The timer left pending by request 1, which failed in the transport, has
\* fired while request 2 was in flight, and request 2 is still in flight.
C5_Witness ==
  \E p \in Procs :
    /\ inflight[p] = {2}
    /\ wire[p][1].kind = "error"
    /\ 1 \in aborted[p]
    /\ 1 \notin abortTimers[p]

\* The fields of a result.
ResultFields ==
  {"requestNumber", "latency", "timestamp", "statusCode", "success",
   "errorMessage", "category"}

\* What the network did to a request was a response with a 2xx status.
GotSuccessResponse(w) == w.kind = "response" /\ w.status >= 200 /\ w.status <= 299

\* C6: no exception leaves performSingleRequest; every settled request has
\* a complete result, and every request that did not get a 2xx response has
\* success false and an errorMessage; an invocation that started its
\* sequence exits only with all its results.
C6_RunnerNeverRaises ==
  \A p \in Procs :
    /\ ~raised[p]
    /\ Len(results[p]) = Len(wire[p])
    /\ \A k \in 1..Len(wire[p]) :
         /\ DOMAIN results[p][k] = ResultFields
         /\ ~GotSuccessResponse(wire[p][k]) =>
              /\ results[p][k].success = FALSE
              /\ results[p][k].errorMessage # Null
              /\ results[p][k].errorMessage # Undefined
    /\ (pc[p] = "exit" /\ requestCount[p] > 0) => Len(results[p]) = requestCount[p]

\* A sequence returned after a transport failure and a timeout.
C6_Witness ==
  \E p \in Procs :
    /\ Returned(p)
    /\ \E k, j \in 1..Len(wire[p]) :
         wire[p][k].kind = "error" /\ wire[p][j].kind = "timeout"

\* C7: a result has success true exactly when the request got a response
\* with a 2xx status; a successful result has a category and no
\* errorMessage, a failed one has no category.
C7_SuccessIffCategory ==
  \A p \in Procs : \A k \in 1..Len(results[p]) :
    LET r == results[p][k]
    IN  /\ r.success <=> GotSuccessResponse(wire[p][k])
        /\ \/ r.success /\ r.category \in Categories /\ r.errorMessage = Null
           \/ ~r.success /\ r.category = Null

\* A sequence holds a successful result and the result of a response with
\* an error status.
C7_Witness ==
  \E p \in Procs : \E k, j \in 1..Len(results[p]) :
    /\ results[p][k].success
    /\ ~results[p][j].success /\ wire[p][j].kind = "response"

\* C8: a response with a status S outside 2xx gives success false,
\* statusCode S, not 0, and an errorMessage containing S; statusCode is 0
\* exactly when the request got no response.
C8_StatusCodeOfErrorResponse ==
  \A p \in Procs : \A k \in 1..Len(results[p]) :
    LET r == results[p][k]
        w == wire[p][k]
    IN  /\ (w.kind = "response" /\ ~GotSuccessResponse(w)) =>
             /\ r.success = FALSE
             /\ r.statusCode = w.status
             /\ r.statusCode # 0
             /\ Contains(r.errorMessage, ToString(w.status))
        /\ r.statusCode = 0 <=> w.kind # "response"

\* A request was answered 404, and its result says so.
C8_Witness ==
  \E p \in Procs : \E k \in 1..Len(results[p]) :
    /\ wire[p][k].kind = "response" /\ wire[p][k].status = 404
    /\ results[p][k].statusCode = 404
    /\ Contains(results[p][k].errorMessage, "404")

\* The array a well-formed store text holds; the empty array for a text that
\* is empty, blank, or not an array.
BaseItems(text) ==
  IF TrimIsEmpty(text) THEN <<>>
  ELSE LET parsed == JSONParse(text)
       IN  IF parsed.ok /\ parsed.type = "array" THEN parsed.items ELSE <<>>

\* The store text is neither blank nor a JSON array.
Malformed(text) ==
  /\ ~TrimIsEmpty(text)
  /\ LET parsed == JSONParse(text) IN ~parsed.ok \/ parsed.type # "array"

\* C9: when the invocations 1..k have each saved their record, and no later
\* one has touched the file, the log file is a JSON array that holds what
\* the first invocation found in it (nothing, for a missing or empty file)
\* followed by the k records in the order they were saved, each unchanged.
C9_PersistAppends ==
  \A p \in Procs :
    ((\A q \in 1..p : saved[q]) /\ (\A q \in Procs : q > p => pc[q] # "exit")) =>
      LET file == files[LOG_FILE_PATH[p]]
          parsed == JSONParse(file.text)
      IN  /\ file.exists
          /\ parsed.ok
          /\ parsed.type = "array"
          /\ parsed.items = BaseItems(fileContent[1]) \o [q \in 1..p |-> logEntry[q]]
          /\ TrimIsEmpty(fileContent[1]) => Len(parsed.items) = p

\* Two invocations have saved to a store that was missing or empty, and the
\* file holds their two records, the first one first.
C9_Witness ==
  /\ saved[1] /\ saved[2] /\ pc[2] = "exit"
  /\ fileContent[1] = <<>>
  /\ JSONParse(files[LOG_FILE_PATH[2]].text).items = <<logEntry[1], logEntry[2]>>

\* C10: an invocation that found a malformed log file (a text that does not
\* parse, or a JSON value that is not an array) and met no file system error
\* ends without an exception having escaped and leaves the file holding the
\* array of its own record alone.
C10_MalformedStoreReplaced ==
  \A p \in Procs :
    (pc[p] = "exit" /\ Malformed(fileContent[p]) /\ logError[p] \notin IOErrors) =>
      /\ ~raised[p]
      /\ files[LOG_FILE_PATH[p]] = File(Stringify(<<logEntry[p]>>))

\* Some request of the results rs failed.
AnyFailed(rs) == \E k \in 1..Len(rs) : ~rs[k].success

\* C11: an invocation that ran its sequence and did not save its record
\* (the read, the parse or the write of the log file failed) has reported the
\* error, no exception has escaped logResults, its results and its summary
\* are those of the sequence, and its exit code is 1 if a request failed and
\* 0 otherwise, as after a successful save.
C11_PersistFailureKeepsOutcome ==
  \A p \in Procs :
    (pc[p] = "exit" /\ requestCount[p] > 0 /\ ~saved[p]) =>
      /\ logError[p] # Null
      /\ ~raised[p]
      /\ Len(results[p]) = requestCount[p]
      /\ metrics[p] = calculateMetrics(results[p])
      /\ logEntry[p].results = results[p]
      /\ logEntry[p].summary = metrics[p]
      /\ exitCode[p] = IF AnyFailed(results[p]) THEN 1 ELSE 0

\* The write of the log file failed after a sequence without a failed
\* request, and the invocation exited with 0.
C11_Witness ==
  \E p \in Procs :
    /\ pc[p] = "exit"
    /\ logError[p] = WriteError
    /\ Len(results[p]) = 2
    /\ ~AnyFailed(results[p])
    /\ exitCode[p] = 0

\* C12: an invocation exits with 0 or 1; with 0 exactly when it reported
\* no configuration error and every request of its sequence succeeded, and
\* with 1 when a request failed or when the validation of the configuration
\* failed before the sequence started.
C12_ExitStatus ==
  \A p \in Procs :
    pc[p] = "exit" =>
      /\ exitCode[p] \in {0, 1}
      /\ exitCode[p] = 0 <=>
           /\ configError[p] = Null
           /\ requestCount[p] > 0
           /\ Len(results[p]) = requestCount[p]
           /\ ~AnyFailed(results[p])
      /\ configError[p] # Null => exitCode[p] = 1 /\ results[p] = <<>>

\* apin has exited with 1 after a sequence with one request that succeeded
\* and one that failed.
C12_Witness ==
  \E p \in Procs :
    /\ pc[p] = "exit"
    /\ options[p].entry = "apin"
    /\ exitCode[p] = 1
    /\ Len(results[p]) = 2
    /\ results[p][1].success
    /\ ~results[p][2].success

\* The string is set and is not the decimal text of an integer of at least
\* least.
InvalidNumber(raw, least) ==
  raw # Undefined /\ (ParseInt(raw).nan \/ ParseInt(raw).val < least)

\* The sequence controller was called with an input out of range.
InvalidControllerInput(p) ==
  \/ options[p].n <= 0
  \/ InvalidNumber(env[p].REQUEST_TIMEOUT, 1)
  \/ InvalidNumber(env[p].REQUEST_DELAY, 0)

\* A direct call of performLatencyTest has started in invocation p.
Called(p) == options[p].entry = "performLatencyTest" /\ pc[p] # "call"

C14_CliPersistsToLogPath ==
  \A p \in Procs :
    (options[p].entry = "apin" /\ saved[p]) =>
      LET path == OptionValue(options[p].logPath, DEFAULT_LOG_PATH)
      IN  /\ LOG_FILE_PATH[p] = path
          /\ files[path] = File(Stringify(existingLogs[p]))

\* calculateMetrics was called directly in invocation p and has returned.
Aggregated(p) == options[p].entry = "calculateMetrics" /\ pc[p] = "returned"

\* The positions of the successful outcomes of rs.
SuccessAt(rs) == {k \in 1..Len(rs) : rs[k].success}

\* C15: the summary of an outcome list has successfulRequests +
\* failedRequests = totalRequests = the length of the list, and
\* successfulRequests is the number of outcomes with success true.
C15_CountsAddUp ==
  \A p \in Procs :
    Aggregated(p) =>
      /\ metrics[p].totalRequests = Len(results[p])
      /\ metrics[p].successfulRequests + metrics[p].failedRequests
           = metrics[p].totalRequests
      /\ metrics[p].successfulRequests = Cardinality(SuccessAt(results[p]))

\* The summary of a list of a success, a 404 and a timeout counts one
\* success and two failures.
C15_Witness ==
  \E p \in Procs :
    /\ Aggregated(p)
    /\ Len(results[p]) = 3
    /\ results[p][1].success
    /\ results[p][2].statusCode = 404
    /\ results[p][3].statusCode = 0
    /\ metrics[p].successfulRequests = 1
    /\ metrics[p].failedRequests = 2

\* C16: the summary of an outcome list without a successful outcome, the
\* empty list included, has averageLatency, minLatency, maxLatency and
\* successRate 0 and averageCategory "N/A", whatever the latencies of the
\* failed outcomes.
C16_NoSuccessGivesZeros ==
  \A p \in Procs :
    (Aggregated(p) /\ SuccessAt(results[p]) = {}) =>
      /\ metrics[p].averageLatency = 0
      /\ metrics[p].minLatency = 0
      /\ metrics[p].maxLatency = 0
      /\ metrics[p].successRate = 0
      /\ metrics[p].averageCategory = "N/A"
      /\ metrics[p].successfulRequests = 0

\* The summary of a 404 after 30 ms and a timeout after 5000 ms has its
\* latencies at 0.
C16_Witness ==
  \E p \in Procs :
    /\ Aggregated(p)
    /\ Len(results[p]) = 2
    /\ results[p][1].statusCode = 404 /\ results[p][1].latency = 30
    /\ results[p][2].statusCode = 0 /\ results[p][2].latency = 5000
    /\ metrics[p].averageLatency = 0
    /\ metrics[p].averageCategory = "N/A"

\* The sum of the latencies of the successful outcomes among rs[lo..hi].
RECURSIVE LatencySum(_, _, _)
LatencySum(rs, lo, hi) ==
  IF lo > hi THEN 0
  ELSE IF lo = hi THEN (IF rs[lo].success THEN rs[lo].latency ELSE 0)
  ELSE LatencySum(rs, lo, (lo + hi) \div 2)
         + LatencySum(rs, (lo + hi) \div 2 + 1, hi)

\* r is n / d rounded to the nearest integer, halves up (n >= 0, d > 0).
IsRoundHalfUp(r, n, d) == 2 * d * r <= 2 * n + d /\ 2 * n + d < 2 * d * (r + 1)

\* C17: the summary of an outcome list with a successful outcome has
\* averageLatency the mean of the latencies of the successful outcomes rounded
\* half up, minLatency and maxLatency the least and the greatest of those
\* latencies, successRate 100 * successes / total rounded half up, and
\* averageCategory the tier of averageLatency; successes at 100 and 200 ms
\* and one failure give 150, 100, 200, 67 and Fast.
C17_MetricsOfSuccesses ==
  \A p \in Procs :
    (Aggregated(p) /\ SuccessAt(results[p]) # {}) =>
      LET rs == results[p]
          m == metrics[p]
          ok == SuccessAt(rs)
      IN  /\ IsRoundHalfUp(m.averageLatency, LatencySum(rs, 1, Len(rs)), Cardinality(ok))
          /\ \E k \in ok : rs[k].latency = m.minLatency
          /\ \A k \in ok : rs[k].latency >= m.minLatency
          /\ \E k \in ok : rs[k].latency = m.maxLatency
          /\ \A k \in ok : rs[k].latency <= m.maxLatency
          /\ IsRoundHalfUp(m.successRate, 100 * Cardinality(ok), Len(rs))
          /\ m.averageCategory =
               (IF m.averageLatency < 300 THEN "Fast (Excellent)"
                ELSE IF m.averageLatency <= 1000 THEN "Medium (Acceptable/Good)"
                ELSE "Slow (Poor/Unacceptable)")
          /\ ( /\ Len(rs) = 3 /\ Cardinality(ok) = 2
               /\ {rs[k].latency : k \in ok} = {100, 200} ) =>
               /\ m.averageLatency = 150
               /\ m.minLatency = 100
               /\ m.maxLatency = 200
               /\ m.successRate = 67
               /\ m.averageCategory = "Fast (Excellent)"

\* C18: categorizeLatency returns a tier for every latency from 0 up, and
\* exactly the one of its range: Fast below 300, Medium from 300 to 1000,
\* Slow above 1000.
C18_TiersPartition ==
  \A p \in Procs :
    (options[p].entry = "categorizeLatency" /\ pc[p] = "returned") =>
      LET ms == latencyMs[p]
          tier == category[p]
      IN  /\ tier \in Categories
          /\ tier = "Fast (Excellent)" <=> ms < 300
          /\ tier = "Medium (Acceptable/Good)" <=> (300 <= ms /\ ms <= 1000)
          /\ tier = "Slow (Poor/Unacceptable)" <=> ms > 1000

\* categorizeLatency(1000) has returned Medium.
C18_Witness ==
  \E p \in Procs :
    /\ options[p].entry = "categorizeLatency"
    /\ pc[p] = "returned"
    /\ latencyMs[p] = 1000
    /\ category[p] = "Medium (Acceptable/Good)"

\* Invocation p of the tool has taken its first step.
Started(p) ==
  options[p].entry \in {"main", "apin"} /\ pc[p] # EntryPc(options[p])

\* The configuration invocation p was started with is in error: for apin a
\* count or a timeout that is not a positive integer, a delay that is
\* negative or not a number, or a URL that does not parse; for main() an
\* API_URL that is missing or does not parse.
ConfigurationInvalid(p) ==
  LET o == options[p]
  IN  IF o.entry = "apin"
      THEN \/ InvalidNumber(o.count, 1)
           \/ InvalidNumber(o.timeout, 1)
           \/ InvalidNumber(o.delay, 0)
           \/ ~URLParses(o.url)
      ELSE \/ env[p].API_URL \in {Undefined, ""}
           \/ ~URLParses(env[p].API_URL)

\* C19: configuration errors are detected before any request is issued.  An
\* invocation started with a configuration in error reports a configuration
\* error, and an invocation that reported one has exited with status 1
\* having issued no request, recorded no outcome and built no session
\* record; the step that reports the error leaves every file as it was.
C19_ConfigErrorsBeforeRequests ==
  /\ [](\A p \in Procs :
          Started(p) =>
            /\ ConfigurationInvalid(p) <=> configError[p] # Null
            /\ configError[p] # Null =>
                 /\ pc[p] = "exit"
                 /\ exitCode[p] = 1
                 /\ issueLog[p] = <<>>
                 /\ wire[p] = <<>>
                 /\ results[p] = <<>>
                 /\ logEntry[p] = NoEntry
                 /\ ~saved[p])
  /\ [][\A p \in Procs : configError'[p] # Null => files' = files]_vars

\* apin was given --delay -1 and a valid URL, count and timeout, with a log
\* file in place: it has reported that the delay must not be negative.
C19_Witness ==
  \E p \in Procs :
    /\ options[p].entry = "apin"
    /\ options[p].delay = "-1"
    /\ URLParses(options[p].url)
    /\ configError[p] = "Error: Delay must be a non-negative number"
    /\ pc[p] = "exit"
    /\ files[DEFAULT_LOG_FILE_PATH].exists

\* The records invocation p found in the store when it read it.
ReadBy(p) == SubSeq(existingLogs[p], 1, Len(existingLogs[p]) - 1)

\* The records of the log file at the default path.
Stored(fs) == ExistingLogs(fs[DEFAULT_LOG_FILE_PATH]).logs

\* C20: two invocations persisting to the same log path are not protected
\* against each other.  Two invocations that have both read the store and
\* not yet written have read the same records; when one of them has written
\* and the other, having read the same records, writes after it, the store
\* becomes the records commonly read followed by the record of the last
\* writer alone, and the record of the first writer is no longer in it; it
\* stays lost once both have exited.
C20_LastWriterWins ==
  /\ [](\A p, q \in Procs :
          (pc[p] = "logWrite" /\ pc[q] = "logWrite") => ReadBy(p) = ReadBy(q))
  /\ [][\A p, q \in Procs :
          (/\ p # q
           /\ pc[q] = "exit" /\ saved[q]
           /\ pc[p] = "logWrite" /\ saved'[p]
           /\ ReadBy(p) = ReadBy(q))
          => /\ Stored(files') = Append(ReadBy(p), logEntry[p])
             /\ ~Contains(Stored(files'), <<logEntry[q]>>)
             /\ Contains(Stored(files), <<logEntry[q]>>)]_vars
  /\ [](\A p, q \in Procs :
          (/\ p # q
           /\ pc[p] = "exit" /\ saved[p]
           /\ pc[q] = "exit" /\ saved[q]
           /\ ReadBy(p) = ReadBy(q))
          => /\ Len(Stored(files)) = Len(ReadBy(p)) + 1
             /\ Contains(Stored(files), <<logEntry[p]>>)
                  # Contains(Stored(files), <<logEntry[q]>>))

\* Both invocations read a store of one earlier record before either
\* wrote; the second wrote first, the first wrote last, and the store holds
\* the earlier record and the record of the first invocation only.
C20_Witness ==
  /\ pc[1] = "exit" /\ saved[1]
  /\ pc[2] = "exit" /\ saved[2]
  /\ ReadBy(1) = <<OldEntry>>
  /\ ReadBy(2) = <<OldEntry>>
  /\ Stored(files) = <<OldEntry, logEntry[1]>>
  /\ logEntry[2] # logEntry[1]

\* C21: the timestamp of a persisted session record is the instant the
\* session started: it is not later than the timestamp of the first outcome
\* of the record.
C21_RecordTimestampIsStart ==
  \A p \in Procs :
    (saved[p] /\ logEntry[p].results # <<>>) =>
      logEntry[p].timestamp <= logEntry[p].results[1].timestamp

\* C22: the configuration of a session record describes the run it belongs
\* to: its requestCount is the number of requests performed, and its
\* timeout and delayMs are the timeout and the delay the sequence controller
\* used, whatever REQUEST_COUNT, REQUEST_TIMEOUT and REQUEST_DELAY are set
\* to.
C22_SnapshotDescribesRun ==
  \A p \in Procs :
    logEntry[p] # NoEntry =>
      /\ logEntry[p].configuration.requestCount = logEntry[p].summary.totalRequests
      /\ logEntry[p].configuration.requestCount = requestCount[p]
      /\ logEntry[p].configuration.timeout = timeout[p]
      /\ logEntry[p].configuration.delayMs = delayMs[p]

\* Invocation p of the tool has passed the validation of its configuration.
Validated(p) == Started(p) /\ configError[p] = Null

\* How far invocation p has come: the run of the sequence, the read and the
\* write of the persist, the exit.
Stage(p) ==
  CASE Running(p) -> 1
    [] pc[p] = "logRead" -> 2
    [] pc[p] = "logWrite" -> 3
    [] pc[p] = "exit" -> 4
    [] OTHER -> 0

\* C23: an invocation that passed validation runs the sequence, aggregates,
\* persists and exits, in this order.  While the sequence runs nothing is
\* aggregated or persisted; the persist is entered once, from the end of
\* the run, with all requestCount outcomes and the summary computed from
\* them; a file changes only in the write of the persist; and the process
\* exits only from the persist, which has then saved the record or
\* reported its failure, whether or not requests failed.
C23_RunAggregatePersistExit ==
  /\ [](\A p \in Procs :
          Validated(p) =>
            /\ Stage(p) >= 1
            /\ Running(p) =>
                 /\ Len(results[p]) < requestCount[p]
                 /\ metrics[p] = NoMetrics
                 /\ logEntry[p] = NoEntry
            /\ Stage(p) >= 2 =>
                 /\ Len(results[p]) = requestCount[p]
                 /\ inflight[p] = {}
                 /\ metrics[p].totalRequests = requestCount[p]
                 /\ logEntry[p].results = results[p]
                 /\ logEntry[p].summary = metrics[p]
            /\ Stage(p) <= 3 => ~saved[p] /\ logError[p] = Null
            /\ Stage(p) = 4 => saved[p] # (logError[p] # Null))
  /\ [][\A p \in Procs :
          /\ Stage(p)' >= Stage(p)
          /\ (Stage(p)' >= 2 /\ Stage(p) < 2 /\ configError'[p] = Null) =>
               /\ Stage(p) = 1 /\ Stage(p)' = 2
               /\ metrics'[p] = calculateMetrics(results'[p])
          /\ (Stage(p)' = 4 /\ Stage(p) < 4 /\ configError'[p] = Null) =>
               Stage(p) \in {2, 3}
          /\ (files' # files /\ options[p].entry # "none") => Stage(p) = 3]_vars

\* An invocation of two requests, the second of which failed, has saved its
\* record and exited.
C23_Witness ==
  \E p \in Procs :
    /\ Validated(p)
    /\ pc[p] = "exit"
    /\ Len(results[p]) = 2
    /\ results[p][1].success
    /\ ~results[p][2].success
    /\ saved[p]
    /\ ExistingLogs(files[LOG_FILE_PATH[p]]).logs # <<>>

\* C24: a sequence run terminates when the timers fire, whatever the server
\* does.  Every request issued yields its outcome, and a call of
\* performLatencyTest with a count of at least 1 returns with as many
\* outcomes as the count.
C24_RunTerminates ==
  /\ \A p \in Procs : \A k \in 1..MaxCount :
       (k \in inflight[p]) ~> (Len(results[p]) >= k /\ k \notin inflight[p])
  /\ \A p \in Procs :
       (options[p].entry = "performLatencyTest" /\ options[p].n >= 1)
         ~> (pc[p] = "returned" /\ Len(results[p]) = options[p].n)

\* A call with a count of two has returned two outcomes, both of requests
\* the server never answered: their timers fired.
C24_Witness ==
  \E p \in Procs :
    /\ options[p].entry = "performLatencyTest"
    /\ options[p].n = 2
    /\ pc[p] = "returned"
    /\ Len(results[p]) = 2
    /\ \A k \in 1..2 : wire[p][k].kind = "timeout"

\* C25 as stated: in the summary of every outcome list, successRate is 100
\* exactly when no request failed, and 0 exactly when no request succeeded.
C25_RateAgreesWithCounts ==
  \A p \in Procs :
    Aggregated(p) =>
      /\ metrics[p].successRate = 100 <=> metrics[p].failedRequests = 0
      /\ metrics[p].successRate = 0 <=> metrics[p].successfulRequests = 0

\* C25 as amended: in the summary of an outcome list of 1 to 199 outcomes,
\* successRate is 100 exactly when no request failed; in the summary of an
\* outcome list of up to 200 outcomes, successRate is 0 exactly when no
\* request succeeded.  In a list of any length, successRate is 100 when it
\* has outcomes and none failed, and 0 when none succeeded.
C25_RateAgreesBelowRounding ==
  \A p \in Procs :
    Aggregated(p) =>
      LET m == metrics[p]
      IN  /\ (m.totalRequests >= 1 /\ m.totalRequests <= 199) =>
               (m.successRate = 100 <=> m.failedRequests = 0)
          /\ m.totalRequests <= 200 =>
               (m.successRate = 0 <=> m.successfulRequests = 0)
          /\ (m.totalRequests >= 1 /\ m.failedRequests = 0) => m.successRate = 100
          /\ m.successfulRequests = 0 => m.successRate = 0

\* The summary of 198 successes in 199 outcomes has a successRate of 99.
C25_Witness ==
  \E p \in Procs :
    /\ Aggregated(p)
    /\ metrics[p].totalRequests = 199
    /\ metrics[p].successfulRequests = 198
    /\ metrics[p].failedRequests = 1
    /\ metrics[p].successRate = 99

====
